---- MODULE Spec2Model ----
(***************************************************************************)
(* Model of the metrics batch driver (src/main.go): the loop of main over  *)
(* the enumerated files, measureDuration, the streaming reducer of         *)
(* sendRequest and the spreadsheet that is saved after every item.         *)
(*                                                                         *)
(* Texts are sequences of one-character strings.  A float64 is the pair    *)
(* <<m, e>> standing for m / 10^e, normalised so that m has no trailing    *)
(* decimal zero when e > 0.                                                *)
(***************************************************************************)
EXTENDS Integers, Sequences, FiniteSets, TLC

\* ---------------------------------------------------------------- bounds
MaxFiles == 2
MaxEvents == 3
MaxClock == 2
MaxLen == 2

\* clock ticks per second: RFC3339 formatting keeps whole seconds only
TicksPerSec == 2

\* ----------------------------------------------------------------- texts
Digit == {"0", "1", "2", "3", "4", "5", "6", "7", "8", "9"}

DigitVal(c) ==
  CASE c = "0" -> 0 [] c = "1" -> 1 [] c = "2" -> 2 [] c = "3" -> 3
    [] c = "4" -> 4 [] c = "5" -> 5 [] c = "6" -> 6 [] c = "7" -> 7
    [] c = "8" -> 8 [] c = "9" -> 9

IsDigitAt(s, i) == i >= 1 /\ i <= Len(s) /\ s[i] \in Digit

\* end of the maximal run of digits that starts at position i (i - 1 if none)
DigitRunEnd(s, i) ==
  CHOOSE j \in (i - 1)..Len(s) :
    ~IsDigitAt(s, j + 1) /\ \A k \in i..j : s[k] \in Digit

\* `\d+(\.\d+)?` anchored at position i: end of the match, or 0
MatchDecimalAt(s, i) ==
  IF ~IsDigitAt(s, i) THEN 0
  ELSE LET j == DigitRunEnd(s, i)
       IN IF j + 1 <= Len(s) /\ s[j + 1] = "." /\ IsDigitAt(s, j + 2)
          THEN DigitRunEnd(s, j + 2)
          ELSE j

\* regexp `\d+(\.\d+)?`, FindAllString(s, -1): the successive non-overlapping
\* leftmost matches, scanning from position i
RECURSIVE FindAllDecimal(_, _)
FindAllDecimal(s, i) ==
  IF i > Len(s) THEN <<>>
  ELSE LET j == MatchDecimalAt(s, i)
       IN IF j = 0 THEN FindAllDecimal(s, i + 1)
          ELSE <<SubSeq(s, i, j)>> \o FindAllDecimal(s, j + 1)

\* regexp `\d+`, FindString(s): the leftmost run of digits, "" if none
RECURSIVE FindDigitsFrom(_, _)
FindDigitsFrom(s, i) ==
  IF i > Len(s) THEN <<>>
  ELSE IF IsDigitAt(s, i) THEN SubSeq(s, i, DigitRunEnd(s, i))
  ELSE FindDigitsFrom(s, i + 1)

FindDigits(s) == FindDigitsFrom(s, 1)

\* ---------------------------------------------------------------- floats
\* A float64 is written <<m, e>>, the number m / 10^e with no trailing decimal
\* zero in m when e > 0; every finite float64 is such a number.
Zero == <<0, 0>>

RECURSIVE Pow10(_)
Pow10(n) == IF n = 0 THEN 1 ELSE 10 * Pow10(n - 1)

RECURSIVE Pow5(_)
Pow5(n) == IF n = 0 THEN 1 ELSE 5 * Pow5(n - 1)

RECURSIVE Pow2(_)
Pow2(n) == IF n = 0 THEN 1 ELSE 2 * Pow2(n - 1)

RECURSIVE DigitsValue(_)
DigitsValue(s) ==
  IF s = <<>> THEN 0
  ELSE 10 * DigitsValue(SubSeq(s, 1, Len(s) - 1)) + DigitVal(s[Len(s)])

RECURSIVE Normalise(_, _)
Normalise(m, e) ==
  IF e > 0 /\ m % 10 = 0 THEN Normalise(m \div 10, e - 1) ELSE <<m, e>>

DotPositions(s) == {i \in 1..Len(s) : s[i] = "."}

\* the plain decimal literals of strconv.ParseFloat: digits with at most one
\* decimal point and at least one digit.  Every match of `\d+(\.\d+)?` and of
\* `\d+` is one; a text of digits and points that is not one is a syntax error
IsDecimalLiteral(s) ==
  /\ \A i \in 1..Len(s) : s[i] \in Digit \cup {"."}
  /\ Cardinality(DotPositions(s)) <= 1
  /\ \E i \in 1..Len(s) : s[i] \in Digit

\* the digits before and after the decimal point of a decimal literal
IntegerPart(s) ==
  IF DotPositions(s) = {} THEN s
  ELSE SubSeq(s, 1, (CHOOSE i \in DotPositions(s) : TRUE) - 1)

FractionPart(s) ==
  IF DotPositions(s) = {} THEN <<>>
  ELSE SubSeq(s, (CHOOSE i \in DotPositions(s) : TRUE) + 1, Len(s))

RECURSIVE StripZeros(_)
StripZeros(s) == IF s # <<>> /\ s[1] = "0" THEN StripZeros(Tail(s)) ELSE s

\* a < b for two numbers written in digits without leading zeros
DigitsLess(a, b) ==
  \/ Len(a) < Len(b)
  \/ /\ Len(a) = Len(b)
     /\ \E i \in 1..Len(a) : /\ \A k \in 1..(i - 1) : a[k] = b[k]
                             /\ DigitVal(a[i]) < DigitVal(b[i])

\* 2^1024 - 2^970 in decimal digits: half-way between the largest float64 and
\* 2^1024.  A decimal literal at or above it rounds to +Inf and ParseFloat
\* returns ErrRange with it
Float64Overflow ==
  <<"1", "7", "9", "7", "6", "9", "3", "1", "3", "4", "8", "6", "2", "3", "1", "5", "8", "0", "7", "9",
     "3", "7", "2", "8", "9", "7", "1", "4", "0", "5", "3", "0", "3", "4", "1", "5", "0", "7", "9", "9",
     "3", "4", "1", "3", "2", "7", "1", "0", "0", "3", "7", "8", "2", "6", "9", "3", "6", "1", "7", "3",
     "7", "7", "8", "9", "8", "0", "4", "4", "4", "9", "6", "8", "2", "9", "2", "7", "6", "4", "7", "5",
     "0", "9", "4", "6", "6", "4", "9", "0", "1", "7", "9", "7", "7", "5", "8", "7", "2", "0", "7", "0",
     "9", "6", "3", "3", "0", "2", "8", "6", "4", "1", "6", "6", "9", "2", "8", "8", "7", "9", "1", "0",
     "9", "4", "6", "5", "5", "5", "5", "4", "7", "8", "5", "1", "9", "4", "0", "4", "0", "2", "6", "3",
     "0", "6", "5", "7", "4", "8", "8", "6", "7", "1", "5", "0", "5", "8", "2", "0", "6", "8", "1", "9",
     "0", "8", "9", "0", "2", "0", "0", "0", "7", "0", "8", "3", "8", "3", "6", "7", "6", "2", "7", "3",
     "8", "5", "4", "8", "4", "5", "8", "1", "7", "7", "1", "1", "5", "3", "1", "7", "6", "4", "4", "7",
     "5", "7", "3", "0", "2", "7", "0", "0", "6", "9", "8", "5", "5", "5", "7", "1", "3", "6", "6", "9",
     "5", "9", "6", "2", "2", "8", "4", "2", "9", "1", "4", "8", "1", "9", "8", "6", "0", "8", "3", "4",
     "9", "3", "6", "4", "7", "5", "2", "9", "2", "7", "1", "9", "0", "7", "4", "1", "6", "8", "4", "4",
     "4", "3", "6", "5", "5", "1", "0", "7", "0", "4", "3", "4", "2", "7", "1", "1", "5", "5", "9", "6",
     "9", "9", "5", "0", "8", "0", "9", "3", "0", "4", "2", "8", "8", "0", "1", "7", "7", "9", "0", "4",
     "1", "7", "4", "4", "9", "7", "7", "9", "2">>

IsOutOfRange(s) == ~DigitsLess(StripZeros(IntegerPart(s)), Float64Overflow)

RECURSIVE BitLength(_)
BitLength(n) == IF n = 0 THEN 0 ELSE 1 + BitLength(n \div 2)

RECURSIVE OddPart(_)
OddPart(n) == IF n = 0 \/ n % 2 = 1 THEN n ELSE OddPart(n \div 2)

\* the number <<m, e>>, below the overflow threshold, is a float64: it is
\* q * 2^x for a q of at most 53 bits and an x of at least -1074
IsFloat64(v) ==
  /\ v[1] % Pow5(v[2]) = 0
  /\ LET n == v[1] \div Pow5(v[2])
         odd == OddPart(n)
     IN /\ BitLength(odd) <= 53
        /\ n # 0 => v[2] <= 1074 + (BitLength(n) - BitLength(odd))

Abs(n) == IF n < 0 THEN 0 - n ELSE n

\* |q * 2^x - m / 10^e| in units of 1 / (2^1074 * 10^e), for f = <<q, x>>
Float64Distance(f, v) ==
  Abs(f[1] * Pow2(f[2] + 1074) * Pow10(v[2]) - v[1] * Pow2(1074))

\* the finite float64 values are the q * 2^x with q < 2^53 and x in
\* -1074..971, each taken in its normal form <<q, x>>
Float64Forms ==
  {f \in (0..(Pow2(53) - 1)) \X ((0 - 1074)..971) :
     f[1] >= Pow2(52) \/ f[2] = 0 - 1074}

\* no float64 is nearer to v than f, and f has an even q when another is as
\* near
IsNearest(f, v) ==
  \A g \in Float64Forms :
    \/ Float64Distance(f, v) < Float64Distance(g, v)
    \/ /\ Float64Distance(f, v) = Float64Distance(g, v)
       /\ (g = f \/ f[1] % 2 = 0)

\* the float64 of form <<q, x>> as a number <<m, e>>
Float64Value(f) == Normalise(f[1] * Pow2(f[2] + 1074) * Pow5(1074), 1074)

\* IEEE 754 round to nearest, ties to even, of a number below the overflow
\* threshold
NearestFloat64(v) == Float64Value(CHOOSE f \in Float64Forms : IsNearest(f, v))

\* the characters of the other texts ParseFloat accepts: a sign, an exponent,
\* a hexadecimal mantissa, underscores, "Inf", "Infinity", "NaN"
OtherFloatChars ==
  {"+", "-", "_", "a", "b", "c", "d", "e", "f", "i", "n", "p", "t", "x", "y",
   "A", "B", "C", "D", "E", "F", "I", "N", "P", "T", "X", "Y"}

\* lines 302-308.  ParseFloat gives a decimal literal the nearest float64, and
\* ErrRange when the literal is too large for one; toFloat turns every error
\* into 0.  Neither regular expression can match a text with a character that
\* is not a digit or a point: such a text is a syntax error when one of its
\* characters cannot stand in a float, and its value is left open otherwise
toFloat(s) ==
  IF \E i \in 1..Len(s) : s[i] \notin Digit \cup {"."}
  THEN IF \E i \in 1..Len(s) : s[i] \notin Digit \cup {"."} \cup OtherFloatChars
       THEN Zero
       ELSE CHOOSE f : TRUE
  ELSE IF ~IsDecimalLiteral(s) THEN Zero
  ELSE IF IsOutOfRange(s) THEN Zero
  ELSE LET fp == FractionPart(s)
           v == Normalise(DigitsValue(IntegerPart(s) \o fp), Len(fp))
       IN IF IsFloat64(v) THEN v ELSE NearestFloat64(v)

extractNumbers(s) ==
  LET numbers == FindAllDecimal(s, 1)
  IN IF Len(numbers) > 0 THEN numbers[Len(numbers)] ELSE <<>>

\* ---------------------------------------------------------- JSON values
\* event[key] of a decoded map[string]interface{}: the key is absent (nil),
\* holds a JSON number, or holds a JSON string
Absent == [kind |-> "absent", text |-> <<>>]
Number == [kind |-> "number", text |-> <<>>]
Str(t) == [kind |-> "string", text |-> t]
IsString(v) == v.kind = "string"

\* the text "Coverage did not increase"
Sentinel == <<"C", "o", "v", "e", "r", "a", "g", "e", " ", "d", "i", "d", " ", "n", "o", "t", " ", "i", "n", "c", "r", "e", "a", "s", "e">>

\* dataType of an event whose discriminator is missing or is not a string
NoType == "(none)"

Event(dt, cc, ci, lc, tl, ta) ==
  [dataType |-> dt, calculatedCoverage |-> cc, coverageIncreased |-> ci,
   linesCovered |-> lc, totalLines |-> tl, testAdded |-> ta]

CalculatedCoverage(v) == Event("calculatedCoverage", v, Absent, Absent, Absent, Absent)
Summary(ci, lc, tl, ta) == Event("summary", Absent, ci, lc, tl, ta)
Other(dt) == Event(dt, Absent, Absent, Absent, Absent, Absent)
NoEvent == Other(NoType)

\* ------------------------------------------------------- input domains
Alphabet == {"0", "5", ".", "%"}

RECURSIVE TextsOfLen(_)
TextsOfLen(n) ==
  IF n = 0 THEN {<<>>}
  ELSE {Append(t, c) : t \in TextsOfLen(n - 1), c \in Alphabet}

ShortTexts == UNION {TextsOfLen(n) : n \in 0..MaxLen}

T10 == <<"1", "0", "%">>
T20 == <<"2", "0", "%">>
T30 == <<"3", "0", "%">>
TRunning == <<".", ".", ".", "r", "u", "n", "n", "i", "n", "g", " ", "a", "t", " ", "1", "2", ",", " ", "n", "o", "w", " ", "4", "5", ".", "5", "%">>
TChain3 == <<"1", ".", "5", ".", "3">>
TChain4 == <<"v", "1", ".", "5", ".", "3", ".", "2", "5", " ", "o", "k">>
TMixed == <<"0", "%", "5">>
THalf == <<"0", ".", "5", "0">>
TNone == <<"n", "o", "n", "e">>
T5 == <<"5">>
TDelta == <<"C", "o", "v", "e", "r", "a", "g", "e", " ", "i", "n", "c", "r", "e", "a", "s", "e", "d", " ", "b", "y", " ", "1", "2", ".", "5", "%", " ", "t", "o", " ", "8", "0">>
T7 == <<"7", " ", "l", "i", "n", "e", "s">>
T9 == <<"o", "f", " ", "0", "9">>
T2 == <<"2", " ", "t", "e", "s", "t", "s", " ", "a", "d", "d", "e", "d">>
\* a run of nines as long as the overflow threshold: too large for a float64
THuge == [i \in 1..Len(Float64Overflow) |-> "9"]

CoverageValues ==
  {Absent, Number} \cup {Str(t) : t \in ShortTexts \cup {T10, T20, T30, TRunning, TChain3, TChain4, TMixed, THalf, TNone, THuge}}
DeltaValues == {Absent, Number, Str(<<>>), Str(Sentinel), Str(T5), Str(TDelta), Str(TNone)}
LinesValues == {Absent, Str(<<>>), Str(TNone), Str(T7)}
TotalValues == {Number, Str(TNone), Str(T9)}
TestValues == {Absent, Str(TNone), Str(T2)}

\* the events of the driver's runs
DriverEvents ==
  {CalculatedCoverage(Str(T30)), CalculatedCoverage(Absent),
   Summary(Str(Sentinel), Str(T7), Str(T9), Str(T2))}

\* every calculatedCoverage text, a few summaries
CoverageEvents ==
  {CalculatedCoverage(v) : v \in CoverageValues}
    \cup {Summary(Str(Sentinel), Str(T7), Str(T9), Str(T2)),
          Summary(Str(T5), Str(T7), Str(T9), Str(T2)),
          Other("progress"), NoEvent}

\* every summary, a few calculatedCoverage texts
SummaryEvents ==
  {Summary(ci, lc, tl, ta) : ci \in DeltaValues, lc \in LinesValues,
                             tl \in TotalValues, ta \in TestValues}
    \cup {Summary(Str(THuge), Str(T7), Str(T9), Str(T2)),
          CalculatedCoverage(Str(T10)), CalculatedCoverage(Str(T20)),
          CalculatedCoverage(Str(TRunning)), Other("progress")}

\* ------------------------------------------------------------- the sink
\* row 1 of the sheet "Execution Log"
Headers ==
  <<"Filepath", "Initial Coverage", "Final Coverage", "Lines Covered",
    "Total Lines", "Tests Added", "Time Duration", "Start Time", "End Time">>

\* A time.Time read by time.Now() holds a wall clock reading and a monotonic
\* clock reading, both in ticks; time.Time{} holds neither
Time(w, t) == [wall |-> w, mono |-> t]
NoTime == Time(0 - 1, 0 - 1)

\* measureDuration 157, endTime.Sub(startTime): both operands were read by
\* time.Now(), so the difference is the one of the monotonic readings
Sub(t, u) == t.mono - u.mono

\* time.Time.Format(time.RFC3339): the wall clock reading in whole seconds
FormatRFC3339(t) == t.wall \div TicksPerSec

\* the nine cells main writes for one item
DataRow(name, ic, fc, lc, tl, ta, duration, start, end) ==
  <<name, ic, fc, lc, tl, ta, duration, FormatRFC3339(start), FormatRFC3339(end)>>

\* excelize SetCellValue over the columns A..I of one row
SetRow(sh, r, cells) ==
  [k \in DOMAIN sh \cup {r} |-> IF k = r THEN cells ELSE sh[k]]

NoFile == [k \in {} |-> <<>>]

\* the report an earlier run left under the same name, execution_log_2.xlsx:
\* the header and one record per file, with the values of that run
OldReport ==
  [r \in 1..(MaxFiles + 1) |->
     IF r = 1 THEN Headers
     ELSE <<r - 1, <<10, 0>>, <<10, 0>>, Zero, Zero, Zero, 0, 0 - 1, 0 - 1>>]

\* by how much the wall clock may be ahead of the monotonic clock: the wall
\* clock is set back or forth by a second, or the machine sleeps for one
Skews == {0 - TicksPerSec, 0, TicksPerSec}

\* how long a blocking call may take, in clock ticks
Delays == {0, 1}

\* -------------------------------------------------------------- state
VARIABLES
  goFiles,          \* the enumerated work items, in walk order
  idx,              \* number of items the range loop has taken so far
  pc,               \* "Start" | "Aborted" | "Idle" | "Dispatching" | "Awaiting" |
                    \* "Saving" | "Done" | "Panicked"
  now,              \* the monotonic clock read by time.Now()
  skew,             \* wall clock reading minus monotonic clock reading
  startTime, endTime,
  metrics,          \* the Metrics measureDuration returned last
  event, nEvents,   \* the event decoded last and the events decoded for this item
  initialCoverage, finalCoverage, linesCovered, totalLines, testAdded,
  row,              \* next data row of the sheet
  sheet,            \* the in-memory workbook: row number -> cells
  disk,             \* content of execution_log_2.xlsx on disk
  saveErr,          \* result of this iteration's SaveAs: "none" | "nil" | "err"
  nSaves            \* number of SaveAs calls that have returned

locals == <<initialCoverage, finalCoverage, linesCovered, totalLines, testAdded>>
sink == <<row, sheet, disk, saveErr, nSaves>>
vars == <<goFiles, idx, pc, now, skew, startTime, endTime, metrics, event, nEvents, locals, sink>>

\* Metrics{}
ZeroMetrics == <<Zero, Zero, Zero, Zero, Zero>>

\* ------------------------------------------------------------ reducer
\* variant of LastNumber: the first match instead of the last
FirstNumber(t, ic) ==
  LET numbers == FindAllDecimal(t, 1)
  IN IF Len(numbers) > 0 THEN toFloat(numbers[1]) ELSE ic

\* lines 214-221: the last match of `\d+(\.\d+)?`, if there is one
LastNumber(t, ic) ==
  LET numbers == FindAllDecimal(t, 1)
  IN IF Len(numbers) > 0 THEN toFloat(numbers[Len(numbers)]) ELSE ic

\* lines 227-231 (and 246-250, 260-264, 274-278): a value that is not a
\* string, or is the empty string, resets the field
ResetIfMissing(v, cur) ==
  IF ~IsString(v) \/ v.text = <<>> THEN Zero ELSE cur

\* variant of CarryForward: the sentinel is not recognised
NoCarryForward(v, ic, cur) == cur

\* lines 233-235: the sentinel carries the initial coverage forward
CarryForward(v, ic, cur) ==
  IF v = Str(Sentinel) THEN ic ELSE cur

\* variant of FirstDigits: the decimal pattern of line 214 instead of `\d+`
FirstDecimal(t, cur) ==
  LET numbers == FindAllDecimal(t, 1)
  IN IF Len(numbers) > 0 THEN toFloat(numbers[1]) ELSE cur

\* lines 237-244 (and 252-258, 266-272, 280-286): first match of `\d+`
FirstDigits(t, cur) ==
  LET match == FindDigits(t)
  IN IF match # <<>> THEN toFloat(match) ELSE cur

\* variant of ReduceCalculatedCoverage: the final coverage follows the value
\* just read
ReduceCalculatedCoverageSetsFinal(e, st) ==
  IF ~IsString(e.calculatedCoverage)
  THEN [st EXCEPT !.panic = TRUE]
  ELSE [st EXCEPT !.ic = LastNumber(e.calculatedCoverage.text, st.ic),
                  !.fc = LastNumber(e.calculatedCoverage.text, st.ic)]

\* lines 212-222; the type assertion of line 215 panics on a non-string
ReduceCalculatedCoverage(e, st) ==
  IF ~IsString(e.calculatedCoverage)
  THEN [st EXCEPT !.panic = TRUE]
  ELSE [st EXCEPT !.ic = LastNumber(e.calculatedCoverage.text, st.ic)]

\* lines 224-287; the type assertions of lines 238, 252, 266 and 280 panic on
\* a non-string, after the assignments made before them
ReduceSummary(e, st) ==
  LET ci == e.coverageIncreased
      lc == e.linesCovered
      tl == e.totalLines
      ta == e.testAdded
      s1 == [st EXCEPT !.fc = CarryForward(ci, st.ic, ResetIfMissing(ci, st.fc))]
      s2 == [s1 EXCEPT !.fc = FirstDigits(ci.text, s1.fc)]
      s3 == [s2 EXCEPT !.lc = ResetIfMissing(lc, s2.lc)]
      s4 == [s3 EXCEPT !.lc = FirstDigits(lc.text, s3.lc)]
      s5 == [s4 EXCEPT !.tl = ResetIfMissing(tl, s4.tl)]
      s6 == [s5 EXCEPT !.tl = FirstDigits(tl.text, s5.tl)]
      s7 == [s6 EXCEPT !.ta = ResetIfMissing(ta, s6.ta)]
      s8 == [s7 EXCEPT !.ta = FirstDigits(ta.text, s7.ta)]
  IN IF ~IsString(ci) THEN [s1 EXCEPT !.panic = TRUE]
     ELSE IF ~IsString(lc) THEN [s3 EXCEPT !.panic = TRUE]
     ELSE IF ~IsString(tl) THEN [s5 EXCEPT !.panic = TRUE]
     ELSE IF ~IsString(ta) THEN [s7 EXCEPT !.panic = TRUE]
     ELSE s8

\* variant of Reduce: every event that is not a calculatedCoverage is taken
\* for a summary
ReduceElseSummary(e, st) ==
  IF e.dataType = "calculatedCoverage" THEN ReduceCalculatedCoverage(e, st)
  ELSE ReduceSummary(e, st)

\* one iteration of the decode loop after a successful Decode, lines 212-287
Reduce(e, st) ==
  IF e.dataType = "calculatedCoverage" THEN ReduceCalculatedCoverage(e, st)
  ELSE IF e.dataType = "summary" THEN ReduceSummary(e, st)
  ELSE st

Fold == [ic |-> initialCoverage, fc |-> finalCoverage, lc |-> linesCovered,
         tl |-> totalLines, ta |-> testAdded, panic |-> FALSE]

\* ------------------------------------------------------------ actions
\* what the range loop of main has not touched yet
Untouched ==
  /\ idx = 0
  /\ now = 0
  /\ skew = 0
  /\ startTime = NoTime
  /\ endTime = NoTime
  /\ metrics = ZeroMetrics
  /\ event = NoEvent
  /\ nEvents = 0
  /\ initialCoverage = Zero
  /\ finalCoverage = Zero
  /\ linesCovered = Zero
  /\ totalLines = Zero
  /\ testAdded = Zero
  /\ row = 2
  /\ saveErr = "none"
  /\ nSaves = 0

\* main 44-48: nothing is enumerated, there is no workbook, and the file of
\* an earlier run may lie in the working directory
Init ==
  /\ Untouched
  /\ goFiles = <<>>
  /\ pc = "Start"
  /\ sheet = NoFile
  /\ disk \in {NoFile, OldReport}

\* the time.Time that time.Now() returns
Now == Time(now + skew, now)

\* main 49-53: os.Getwd fails and main returns
GetwdFails ==
  /\ pc = "Start"
  /\ pc' = "Aborted"
  /\ UNCHANGED <<goFiles, idx, now, skew, startTime, endTime, metrics, event, nEvents, locals, sink>>

\* main 55-73: filepath.Walk meets an error (a directory that cannot be
\* read), the callback returns it and main returns; n files were collected
WalkFails(n) ==
  /\ pc = "Start"
  /\ goFiles' = [i \in 1..n |-> i]
  /\ pc' = "Aborted"
  /\ UNCHANGED <<idx, now, skew, startTime, endTime, metrics, event, nEvents, locals, sink>>

\* main 49-90: the walk collects n files, the workbook gets its header row
\* and the first data row is row 2
Enumerate(n) ==
  /\ pc = "Start"
  /\ goFiles' = [i \in 1..n |-> i]
  /\ sheet' = SetRow(NoFile, 1, Headers)
  /\ row' = 2
  /\ pc' = "Idle"
  /\ UNCHANGED <<idx, now, skew, startTime, endTime, metrics, event, nEvents, locals, disk, saveErr, nSaves>>

\* the wall clock is set, or the machine sleeps, while the program runs
WallClockStep(s) ==
  /\ pc \in {"Idle", "Dispatching", "Awaiting", "Saving"}
  /\ s # skew
  /\ skew' = s
  /\ UNCHANGED <<goFiles, idx, pc, now, startTime, endTime, metrics, event, nEvents, locals, sink>>

\* a blocking call that takes d ticks
Elapse(d) == now + d <= MaxClock /\ now' = now + d /\ skew' = skew

\* variant of Dispatch: the start time is read once, for the first item only
DispatchStaleStart ==
  /\ pc = "Idle"
  /\ idx < Len(goFiles)
  /\ idx' = idx + 1
  /\ startTime' = IF startTime = NoTime THEN Now ELSE startTime
  /\ pc' = "Dispatching"
  /\ saveErr' = "none"
  /\ UNCHANGED <<goFiles, metrics, now, skew, endTime, event, nEvents, locals, row, sheet, disk, nSaves>>

\* main 93-105, measureDuration 148: the loop takes the next file and the
\* start time is read
Dispatch ==
  /\ pc = "Idle"
  /\ idx < Len(goFiles)
  /\ idx' = idx + 1
  /\ startTime' = Now
  /\ pc' = "Dispatching"
  /\ saveErr' = "none"
  /\ UNCHANGED <<goFiles, metrics, now, skew, endTime, event, nEvents, locals, row, sheet, disk, nSaves>>

\* main 135-139: the range loop is exhausted
Finish ==
  /\ pc = "Idle"
  /\ idx = Len(goFiles)
  /\ pc' = "Done"
  /\ UNCHANGED <<goFiles, metrics, idx, now, skew, startTime, endTime, event, nEvents, locals, sink>>

\* variant of FailItem: the loop body goes on after the error and writes the
\* zero Metrics that measureDuration returned
FailItemRecords ==
  /\ pc' = "Saving"
  /\ endTime' = NoTime
  /\ metrics' = ZeroMetrics
  /\ event' = NoEvent
  /\ sheet' = SetRow(sheet, row,
                DataRow(goFiles[idx], Zero, Zero, Zero, Zero, Zero, 0, startTime, NoTime))
  /\ UNCHANGED <<goFiles, idx, startTime, nEvents, locals, row, disk, saveErr, nSaves>>

\* variant of FailItem: the row advances although nothing was written
FailItemSkipsRow ==
  /\ pc' = "Idle"
  /\ endTime' = NoTime
  /\ metrics' = ZeroMetrics
  /\ event' = NoEvent
  /\ row' = row + 1
  /\ UNCHANGED <<goFiles, idx, startTime, nEvents, locals, sheet, disk, saveErr, nSaves>>

\* measureDuration 152-154 and main 106-109: the error is printed and the
\* loop continues with the next file
FailItem ==
  /\ pc' = "Idle"
  /\ endTime' = NoTime
  /\ metrics' = ZeroMetrics
  /\ event' = NoEvent
  /\ UNCHANGED <<goFiles, idx, startTime, nEvents, locals, sink>>

\* sendRequest 180-192: the connection fails or the status is not 200
RequestFails(d) ==
  /\ pc = "Dispatching"
  /\ Elapse(d)
  /\ FailItem

\* variant of Respond200: the five values live across calls
Respond200KeepsFold(d) ==
  /\ pc = "Dispatching"
  /\ Elapse(d)
  /\ pc' = "Awaiting"
  /\ event' = NoEvent
  /\ nEvents' = 0
  /\ UNCHANGED <<goFiles, metrics, idx, startTime, endTime, locals, sink>>

\* sendRequest 180-199: status 200, the fold starts from zero values
Respond200(d) ==
  /\ pc = "Dispatching"
  /\ Elapse(d)
  /\ pc' = "Awaiting"
  /\ event' = NoEvent
  /\ nEvents' = 0
  /\ initialCoverage' = Zero
  /\ finalCoverage' = Zero
  /\ linesCovered' = Zero
  /\ totalLines' = Zero
  /\ testAdded' = Zero
  /\ UNCHANGED <<goFiles, metrics, idx, startTime, endTime, sink>>

\* sendRequest 202-287: one JSON object is decoded and reduced
DecodeEvent(e, d) ==
  /\ pc = "Awaiting"
  /\ nEvents < MaxEvents
  /\ Elapse(d)
  /\ event' = e
  /\ nEvents' = nEvents + 1
  /\ LET st == Reduce(e, Fold)
     IN /\ initialCoverage' = st.ic
        /\ finalCoverage' = st.fc
        /\ linesCovered' = st.lc
        /\ totalLines' = st.tl
        /\ testAdded' = st.ta
        /\ pc' = IF st.panic THEN "Panicked" ELSE "Awaiting"
  /\ UNCHANGED <<goFiles, metrics, idx, startTime, endTime, sink>>

\* variant of DecodeError: any error of Decode ends the loop like io.EOF
DecodeErrorEndsStream(d) ==
  /\ pc = "Awaiting"
  /\ Elapse(d)
  /\ endTime' = Now'
  /\ metrics' = locals
  /\ sheet' = SetRow(sheet, row,
                DataRow(goFiles[idx], initialCoverage, finalCoverage, linesCovered,
                        totalLines, testAdded, Sub(endTime', startTime), startTime, endTime'))
  /\ pc' = "Saving"
  /\ event' = NoEvent
  /\ UNCHANGED <<goFiles, idx, startTime, nEvents, locals, row, disk, saveErr, nSaves>>

\* sendRequest 208-210: malformed or truncated JSON, or a read error
DecodeError(d) ==
  /\ pc = "Awaiting"
  /\ Elapse(d)
  /\ FailItem

\* variant of EndOfStream: the row is written but the workbook is not saved
\* before the loop goes on
EndOfStreamNoSave(d) ==
  /\ pc = "Awaiting"
  /\ Elapse(d)
  /\ endTime' = Now'
  /\ metrics' = locals
  /\ sheet' = SetRow(sheet, row,
                DataRow(goFiles[idx], initialCoverage, finalCoverage, linesCovered,
                        totalLines, testAdded, Sub(endTime', startTime), startTime, endTime'))
  /\ row' = row + 1
  /\ pc' = "Idle"
  /\ event' = NoEvent
  /\ UNCHANGED <<goFiles, idx, startTime, nEvents, locals, disk, saveErr, nSaves>>

\* sendRequest 204-206 and 290-299, measureDuration 156-162, main 111-122:
\* the stream ends, the end time is read and the row is written
EndOfStream(d) ==
  /\ pc = "Awaiting"
  /\ Elapse(d)
  /\ endTime' = Now'
  /\ metrics' = locals
  /\ sheet' = SetRow(sheet, row,
                DataRow(goFiles[idx], initialCoverage, finalCoverage, linesCovered,
                        totalLines, testAdded, Sub(endTime', startTime), startTime, endTime'))
  /\ pc' = "Saving"
  /\ event' = NoEvent
  /\ UNCHANGED <<goFiles, idx, startTime, nEvents, locals, row, disk, saveErr, nSaves>>

\* variant of SaveAs: only the header and the row of this item reach the file
SaveAsLatestRow(ok, d) ==
  /\ pc = "Saving"
  /\ Elapse(d)
  /\ IF ok THEN disk' = SetRow(SetRow(NoFile, 1, Headers), row, sheet[row]) /\ saveErr' = "nil"
           ELSE disk' \in {disk, NoFile} /\ saveErr' = "err"
  /\ nSaves' = nSaves + 1
  /\ row' = row + 1
  /\ pc' = "Idle"
  /\ UNCHANGED <<goFiles, metrics, idx, startTime, endTime, event, nEvents, locals, sheet>>

\* variant of SaveAs: the row advances only when the save succeeded
SaveAsRowOnSuccess(ok, d) ==
  /\ pc = "Saving"
  /\ Elapse(d)
  /\ IF ok THEN disk' = sheet /\ saveErr' = "nil" /\ row' = row + 1
           ELSE disk' \in {disk, NoFile} /\ saveErr' = "err" /\ row' = row
  /\ nSaves' = nSaves + 1
  /\ pc' = "Idle"
  /\ UNCHANGED <<goFiles, metrics, idx, startTime, endTime, event, nEvents, locals, sheet>>

\* main 124-132: SaveAs writes the whole workbook or fails (a failed write
\* may leave the old file or an unreadable one), then the row advances
SaveAs(ok, d) ==
  /\ pc = "Saving"
  /\ Elapse(d)
  /\ IF ok THEN disk' = sheet /\ saveErr' = "nil"
           ELSE disk' \in {disk, NoFile} /\ saveErr' = "err"
  /\ nSaves' = nSaves + 1
  /\ row' = row + 1
  /\ pc' = "Idle"
  /\ UNCHANGED <<goFiles, metrics, idx, startTime, endTime, event, nEvents, locals, sheet>>

Next ==
  \/ GetwdFails
  \/ \E n \in 0..MaxFiles : WalkFails(n)
  \/ \E n \in 0..MaxFiles : Enumerate(n)
  \/ Dispatch
  \/ Finish
  \/ \E d \in Delays : RequestFails(d)
  \/ \E d \in Delays : Respond200(d)
  \/ \E e \in DriverEvents, d \in Delays : DecodeEvent(e, d)
  \/ \E d \in Delays : DecodeError(d)
  \/ \E d \in Delays : EndOfStream(d)
  \/ \E ok \in BOOLEAN, d \in Delays : SaveAs(ok, d)

\* the program while the wall clock runs with the monotonic clock
Spec == Init /\ [][Next]_vars

\* the reducer on one item: the walk found one file and no earlier report,
\* the clocks stand still while the stream is read, and the events are those
\* of one of the reducer's input domains
InitReducer ==
  /\ Untouched
  /\ goFiles = <<1>>
  /\ pc = "Idle"
  /\ sheet = SetRow(NoFile, 1, Headers)
  /\ disk = NoFile

NextCoverage ==
  \/ Dispatch
  \/ Finish
  \/ RequestFails(0)
  \/ Respond200(0)
  \/ \E e \in CoverageEvents : DecodeEvent(e, 0)
  \/ DecodeError(0)
  \/ EndOfStream(0)
  \/ \E ok \in BOOLEAN : SaveAs(ok, 0)

SpecCoverage == InitReducer /\ [][NextCoverage]_vars

NextSummary ==
  \/ Dispatch
  \/ Finish
  \/ RequestFails(0)
  \/ Respond200(0)
  \/ \E e \in SummaryEvents : DecodeEvent(e, 0)
  \/ DecodeError(0)
  \/ EndOfStream(0)
  \/ \E ok \in BOOLEAN : SaveAs(ok, 0)

SpecSummary == InitReducer /\ [][NextSummary]_vars

\* the driver on two files whose streams carry no metrics, while the wall
\* clock is stepped
InitClock ==
  /\ Untouched
  /\ goFiles = <<1, 2>>
  /\ pc = "Idle"
  /\ sheet = SetRow(NoFile, 1, Headers)
  /\ disk = NoFile

NextClock ==
  \/ Dispatch
  \/ Finish
  \/ \E d \in Delays : RequestFails(d)
  \/ \E d \in Delays : Respond200(d)
  \/ \E d \in Delays : DecodeEvent(Other("progress"), d)
  \/ \E d \in Delays : DecodeError(d)
  \/ \E d \in Delays : EndOfStream(d)
  \/ \E ok \in BOOLEAN, d \in Delays : SaveAs(ok, d)
  \/ \E s \in Skews : WallClockStep(s)

SpecClock == InitClock /\ [][NextClock]_vars

\* the driver is one sequential program that keeps running, and every
\* response ends: a step of the program that can be taken is taken
SpecFair == Init /\ [][Next]_vars /\ WF_vars(Next)

\* ================================================================ claims
\* the data rows of a workbook (row 1 is the header)
Records(sh) == DOMAIN sh \ {1}
NumRecords(sh) == Cardinality(Records(sh))

HasDigit(t) == \E i \in 1..Len(t) : t[i] \in Digit

DigitChar(n) == CHOOSE c \in Digit : DigitVal(c) = n

RECURSIVE ToDigits(_)
ToDigits(n) == IF n = 0 THEN <<>> ELSE Append(ToDigits(n \div 10), DigitChar(n % 10))

RECURSIVE StripTrailingZeros(_)
StripTrailingZeros(s) ==
  IF s # <<>> /\ s[Len(s)] = "0" THEN StripTrailingZeros(SubSeq(s, 1, Len(s) - 1)) ELSE s

\* the number written by the digits ip followed by the decimals fp is too
\* large for a float64
IsTooLarge(ip) == ~DigitsLess(StripZeros(ip), Float64Overflow)

\* the float64 f is the number written by the digits ip followed by the
\* decimals fp: the number itself, read digit by digit, or the float64 next to
\* it when the number is not one
IsValueOf(f, ip, fp) ==
  LET fr == StripTrailingZeros(fp)
      v == <<DigitsValue(ip \o fr), Len(fr)>>
  IN /\ ~IsTooLarge(ip)
     /\ \/ f[2] = Len(fr) /\ ToDigits(f[1]) = StripZeros(ip \o fr)
        \/ ~IsFloat64(v) /\ f = NearestFloat64(v)

\* the event decoded by the step: the step is one iteration of the decode loop
Decoded == pc = "Awaiting" /\ nEvents' = nEvents + 1

\* ---- C1
\* C1: an item that fails (connection error, non-200 status, decode error)
\* leaves the sheet, the row and the file as they were and returns the driver
\* to the loop head; from there the next item, if any, can be dispatched, and a
\* dispatch reads a fresh start time that is not before the earlier one.
C1_Isolation ==
  /\ [][(\E d \in Delays : RequestFails(d) \/ DecodeError(d))
          => /\ sheet' = sheet /\ row' = row /\ disk' = disk /\ nSaves' = nSaves
             /\ pc' = "Idle"
             /\ now' >= now]_vars
  /\ [][Dispatch => /\ startTime' = Now
                    /\ startTime'.mono >= startTime.mono
                    /\ idx' = idx + 1]_vars
  /\ []((pc = "Idle" /\ idx < Len(goFiles)) => ENABLED Dispatch)

\* item 1 failed (no row was written for it) and item 2 is being dispatched
\* with a later start time
C1_Witness ==
  /\ idx = 2 /\ pc = "Dispatching"
  /\ row = 2 /\ Records(sheet) = {}
  /\ startTime.mono > 0

\* ---- C2
\* C2: whenever the driver has stopped, it is in Done and every enumerated
\* item has been dispatched.
C2_RunNeverStopsEarly ==
  pc \in {"Done", "Panicked"} => (pc = "Done" /\ idx = Len(goFiles))

\* ---- C3
\* C3: a summary event whose linesCovered is absent or not a string is reduced
\* without failure, gives linesCovered 0.0, and totalLines and testAdded are
\* still taken from their own texts.
C3_MissingLinesCovered ==
  [][(/\ Decoded
      /\ event'.dataType = "summary"
      /\ IsString(event'.coverageIncreased)
      /\ ~IsString(event'.linesCovered)
      /\ IsString(event'.totalLines) /\ IsString(event'.testAdded))
        => /\ pc' = "Awaiting"
           /\ linesCovered' = Zero
           /\ HasDigit(event'.totalLines.text)
                => IsValueOf(totalLines', FindDigits(event'.totalLines.text), <<>>)
           /\ HasDigit(event'.testAdded.text)
                => IsValueOf(testAdded', FindDigits(event'.testAdded.text), <<>>)]_vars

\* ---- C4
\* C4: once a summary event whose coverageIncreased is exactly the sentinel
\* has been reduced, finalCoverage equals initialCoverage, whatever the other
\* fields of the event hold.
C4_CarryForward ==
  (/\ pc \in {"Awaiting", "Panicked"}
   /\ event.dataType = "summary"
   /\ event.coverageIncreased = Str(Sentinel))
    => finalCoverage = initialCoverage

\* "...running at 12, now 45.5%" then a sentinel summary: both are 45.5
C4_Witness ==
  /\ pc = "Awaiting"
  /\ event.dataType = "summary"
  /\ event.coverageIncreased = Str(Sentinel)
  /\ initialCoverage = <<455, 1>>
  /\ finalCoverage = <<455, 1>>

\* ---- C5
\* position of the last digit of t (0 if there is none)
LastDigitPos(t) ==
  IF HasDigit(t) THEN CHOOSE i \in 1..Len(t) :
                        t[i] \in Digit /\ \A k \in (i + 1)..Len(t) : t[k] \notin Digit
  ELSE 0

\* start of the run of digits that ends at position j
RunStart(t, j) ==
  CHOOSE a \in 1..j : ~IsDigitAt(t, a - 1) /\ \A k \in a..j : t[k] \in Digit

\* number of digit runs, joined by single points, in the chain that ends with
\* the run starting at a
RECURSIVE ChainLen(_, _)
ChainLen(t, a) ==
  IF a >= 3 /\ t[a - 1] = "." /\ IsDigitAt(t, a - 2)
  THEN 1 + ChainLen(t, RunStart(t, a - 2))
  ELSE 1

\* the last decimal-or-integer substring of t, read from the right: the runs
\* of a chain pair up from its left end, so the last run stands alone when
\* the chain has an odd number of runs
LastNumericStart(t) ==
  LET a == RunStart(t, LastDigitPos(t))
  IN IF ChainLen(t, a) % 2 = 1 THEN a ELSE RunStart(t, a - 2)

\* the digits before the point, and the decimals, of the last number of t
LastNumericInt(t) ==
  LET b == LastDigitPos(t)
      i == LastNumericStart(t)
      a == RunStart(t, b)
  IN IF i = a THEN SubSeq(t, i, b) ELSE SubSeq(t, i, a - 2)

LastNumericFrac(t) ==
  LET b == LastDigitPos(t)
      a == RunStart(t, b)
  IN IF LastNumericStart(t) = a THEN <<>> ELSE SubSeq(t, a, b)

IsLastNumeric(f, t) == IsValueOf(f, LastNumericInt(t), LastNumericFrac(t))

\* C5 as claimed: a calculatedCoverage event whose text holds a number sets
\* initialCoverage to the last decimal-or-integer substring of the text,
\* whatever that number is; one whose text holds no number leaves
\* initialCoverage as it was.
C5_AsClaimed ==
  [][(/\ Decoded
      /\ event'.dataType = "calculatedCoverage"
      /\ IsString(event'.calculatedCoverage))
        => LET t == event'.calculatedCoverage.text
           IN /\ pc' = "Awaiting"
              /\ IF HasDigit(t) THEN IsLastNumeric(initialCoverage', t)
                                ELSE initialCoverage' = initialCoverage]_vars

\* C5: a calculatedCoverage event whose text holds a number sets
\* initialCoverage to the last decimal-or-integer substring of the text, and
\* to 0.0 when that number is too large for a float64; one whose text holds no
\* number leaves initialCoverage as it was ("10%" gives 10, "20%" gives 20,
\* "...running at 12, now 45.5%" gives 45.5).
C5_LastMatchWins ==
  [][(/\ Decoded
      /\ event'.dataType = "calculatedCoverage"
      /\ IsString(event'.calculatedCoverage))
        => LET t == event'.calculatedCoverage.text
           IN /\ pc' = "Awaiting"
              /\ IF ~HasDigit(t) THEN initialCoverage' = initialCoverage
                 ELSE IF IsTooLarge(LastNumericInt(t)) THEN initialCoverage' = Zero
                 ELSE IsLastNumeric(initialCoverage', t)
              /\ t = T10 => initialCoverage' = <<10, 0>>
              /\ t = T20 => initialCoverage' = <<20, 0>>
              /\ t = TRunning => initialCoverage' = <<455, 1>>]_vars

\* "0%5" arrived after an event that had set a non-zero coverage, and the
\* last number (5) is the one kept; then a number too large for a float64
\* arrived and the coverage fell to 0
C5_Witness ==
  /\ pc = "Awaiting"
  /\ \/ /\ nEvents = 2
        /\ event = CalculatedCoverage(Str(TMixed))
        /\ initialCoverage = <<5, 0>>
     \/ /\ nEvents = 3
        /\ event = CalculatedCoverage(Str(THuge))
        /\ initialCoverage = Zero

\* ---- C6
\* the first run of digits of a text that holds a digit
FirstDigitRun(t) ==
  LET i == CHOOSE i \in 1..Len(t) :
             t[i] \in Digit /\ \A k \in 1..(i - 1) : t[k] \notin Digit
      j == CHOOSE j \in i..Len(t) :
             ~IsDigitAt(t, j + 1) /\ \A k \in i..j : t[k] \in Digit
  IN SubSeq(t, i, j)

\* f is the value of the first run of digits of t
IsFirstDigitRun(f, t) == IsValueOf(f, FirstDigitRun(t), <<>>)

\* C6 as claimed: once a summary event whose coverageIncreased is a text other
\* than the sentinel and holds digits has been reduced, finalCoverage is the
\* first run of digits of that text, whatever that number is.
C6_AsClaimed ==
  (/\ pc \in {"Awaiting", "Panicked"}
   /\ event.dataType = "summary"
   /\ IsString(event.coverageIncreased)
   /\ event.coverageIncreased.text # Sentinel
   /\ HasDigit(event.coverageIncreased.text))
    => IsFirstDigitRun(finalCoverage, event.coverageIncreased.text)

\* C6: once a summary event whose coverageIncreased is a text other than the
\* sentinel and holds digits has been reduced, finalCoverage is the first run
\* of digits of that text, and 0.0 when that number is too large for a
\* float64, whatever initialCoverage is ("5" gives 5).
C6_NumericDeltaOverrides ==
  (/\ pc \in {"Awaiting", "Panicked"}
   /\ event.dataType = "summary"
   /\ IsString(event.coverageIncreased)
   /\ event.coverageIncreased.text # Sentinel
   /\ HasDigit(event.coverageIncreased.text))
    => /\ IF IsTooLarge(FirstDigitRun(event.coverageIncreased.text))
          THEN finalCoverage = Zero
          ELSE IsFirstDigitRun(finalCoverage, event.coverageIncreased.text)
       /\ event.coverageIncreased.text = T5 => finalCoverage = <<5, 0>>

\* "10%", "20%", then a summary with delta "5": initial 20, final 5
C6_Witness ==
  /\ pc = "Awaiting"
  /\ nEvents = 3
  /\ event.dataType = "summary"
  /\ event.coverageIncreased = Str(T5)
  /\ initialCoverage = <<20, 0>>
  /\ finalCoverage = <<5, 0>>

\* ---- C7
\* the value a summary field yields on its own: the first run of digits of
\* its text, 0.0 when there is none or when it is too large for a float64
DerivedAlone(f, v) ==
  IF HasDigit(v.text) /\ ~IsTooLarge(FirstDigitRun(v.text))
  THEN IsFirstDigitRun(f, v.text)
  ELSE f = Zero

\* C7: after a summary event has been reduced, the four summary values are
\* the ones derived from that event alone.
C7_LastSummaryWins ==
  (/\ pc = "Awaiting"
   /\ event.dataType = "summary")
    => /\ IF event.coverageIncreased = Str(Sentinel)
          THEN finalCoverage = initialCoverage
          ELSE DerivedAlone(finalCoverage, event.coverageIncreased)
       /\ DerivedAlone(linesCovered, event.linesCovered)
       /\ DerivedAlone(totalLines, event.totalLines)
       /\ DerivedAlone(testAdded, event.testAdded)

\* ---- C8
\* C8: the reduction of a stream of decoded events never fails: every
\* iteration of the decode loop leaves the reducer reading, and the end of
\* the stream hands a Metrics to the driver.
C8_ReducerTotality ==
  [][pc = "Awaiting" /\ (Decoded \/ nEvents' = nEvents)
       => pc' \in {"Awaiting", "Saving", "Idle"}]_vars

\* ---- C9
\* C9: the sheet never holds more records than items have been taken from
\* the enumerator, and while an item is being requested or read every record
\* of the sheet has been through a completed SaveAs.
C9_CrashConsistency ==
  /\ NumRecords(sheet) <= idx
  /\ pc \in {"Dispatching", "Awaiting"}
       => /\ nSaves = NumRecords(sheet)
          /\ NumRecords(sheet) <= idx - 1

\* item 2 is being read after the record of item 1 went through SaveAs
C9_Witness ==
  /\ pc = "Awaiting" /\ idx = 2
  /\ NumRecords(sheet) = 1 /\ nSaves = 1

\* ---- C10
\* C10: from a successful SaveAs until the next item is dispatched, the file
\* holds the header and every record appended so far, in rows 2..row-1.
C10_Durability ==
  saveErr = "nil"
    => /\ pc \in {"Idle", "Done"}
       /\ disk = sheet
       /\ DOMAIN disk = 1..(row - 1)
       /\ NumRecords(disk) = nSaves

\* two records were appended and the second save succeeded
C10_Witness ==
  /\ saveErr = "nil" /\ pc = "Idle"
  /\ row = 4 /\ NumRecords(disk) = 2

\* ---- C11
\* C11: after a SaveAs that failed the driver is back at the loop head and
\* can take the next file or finish, the next data row is a row the sheet does
\* not hold yet, and while a record waits to be saved it is the only record of
\* its item and every earlier record is still in the sheet.
C11_SinkFailureNotFatal ==
  /\ saveErr = "err"
       => /\ pc \in {"Idle", "Done"}
          /\ row \notin DOMAIN sheet
          /\ (pc = "Idle" /\ idx < Len(goFiles)) => ENABLED Dispatch
          /\ (pc = "Idle" /\ idx = Len(goFiles)) => ENABLED Finish
  /\ pc = "Saving"
       => /\ \A r \in Records(sheet) \ {row} : sheet[r][1] # goFiles[idx]
          /\ NumRecords(sheet) = nSaves + 1

\* the save of item 1 failed (one SaveAs returned, no readable file) and the
\* record of item 2 stands in row 3, below the record of item 1
C11_Witness ==
  /\ pc = "Saving" /\ idx = 2
  /\ nSaves = 1 /\ disk = NoFile
  /\ Records(sheet) = {2, 3}
  /\ sheet[2][1] = 1 /\ sheet[3][1] = 2

\* ---- C12
\* the rows of sh are the header and a contiguous block of records whose
\* items appear in enumeration order, at most one record per item
IsOrderedReport(sh) ==
  /\ \E k \in 0..(MaxFiles + 2) : DOMAIN sh = 1..k
  /\ \A r \in Records(sh) : sh[r][1] \in 1..idx
  /\ \A r, q \in Records(sh) : r < q => sh[r][1] < sh[q][1]

\* C12: the sheet, and the file once this run has written it and whenever it
\* is readable, hold the header and contiguous records in enumeration order,
\* at most one per item; the file holds rows of the sheet; no step changes or
\* removes a row of the sheet.
C12_AppendOnlyOrdered ==
  /\ [](/\ IsOrderedReport(sheet)
        /\ Records(sheet) = 2..(IF pc = "Saving" THEN row ELSE row - 1)
        /\ disk \notin {NoFile, OldReport}
             => /\ IsOrderedReport(disk)
                /\ \A r \in DOMAIN disk : r \in DOMAIN sheet /\ disk[r] = sheet[r])
  /\ [][\A r \in DOMAIN sheet : r \in DOMAIN sheet' /\ sheet'[r] = sheet[r]]_vars

\* item 1 failed and the record of item 2 stands in row 2: no blank row
C12_Witness ==
  /\ idx = 2 /\ pc = "Idle"
  /\ Records(sheet) = {2}
  /\ sheet[2][1] = 2
  /\ disk = sheet

\* ---- C13
\* C13: a clean end of the stream ends the item with success: the Metrics
\* returned are the accumulated values and they are written to the current
\* row.  A decode error fails the item: the Metrics returned are all zero,
\* there is no end time, and sheet, row and file stay as they were, whatever
\* had been accumulated.
C13_DecoderTermination ==
  /\ [][(\E d \in Delays : EndOfStream(d))
          => /\ pc' = "Saving"
             /\ endTime' # NoTime
             /\ metrics' = locals
             /\ SubSeq(sheet'[row], 2, 6) = locals]_vars
  /\ [][(\E d \in Delays : DecodeError(d))
          => /\ pc' = "Idle"
             /\ endTime' = NoTime
             /\ metrics' = ZeroMetrics
             /\ sheet' = sheet /\ row' = row /\ disk' = disk]_vars
  /\ []((pc = "Idle" /\ idx > 0 /\ saveErr = "none")
          => /\ metrics = ZeroMetrics
             /\ endTime = NoTime)

\* item 1 had accumulated an initial coverage of 30 when its stream broke:
\* zero Metrics were returned and no record was written
C13_Witness ==
  /\ pc = "Idle" /\ idx = 1 /\ saveErr = "none"
  /\ nEvents >= 1
  /\ initialCoverage = <<30, 0>>
  /\ metrics = ZeroMetrics
  /\ Records(sheet) = {}

\* ---- C14
\* C14: an event whose dataType is neither calculatedCoverage nor summary
\* (or is missing) leaves the five values as they were and the reducer reading.
C14_UnknownEventsSkipped ==
  [][(/\ Decoded
      /\ event'.dataType \notin {"calculatedCoverage", "summary"})
        => /\ locals' = locals
           /\ pc' = "Awaiting"]_vars

\* a progress event arrived third, after "20%" and a summary with delta "5"
C14_Witness ==
  /\ pc = "Awaiting"
  /\ nEvents = 3
  /\ event = Other("progress")
  /\ initialCoverage = <<20, 0>>
  /\ finalCoverage = <<5, 0>>

\* ---- C15
\* C15: the reduction of every item starts from five zeros, so a sentinel
\* summary that is the first event of an item gives finalCoverage 0.0, and an
\* item whose stream holds no event is recorded with five zeros.
C15_FreshFoldState ==
  /\ (pc = "Awaiting" /\ nEvents = 0) => locals = ZeroMetrics
  /\ (/\ pc = "Awaiting" /\ nEvents = 1
      /\ event.dataType = "summary"
      /\ event.coverageIncreased = Str(Sentinel))
       => initialCoverage = Zero /\ finalCoverage = Zero
  /\ (pc = "Saving" /\ nEvents = 0) => SubSeq(sheet[row], 2, 6) = ZeroMetrics

\* item 1 was recorded with an initial coverage of 30; the first event of
\* item 2 is a sentinel summary and its finalCoverage is 0
C15_Witness ==
  /\ idx = 2 /\ pc = "Awaiting" /\ nEvents = 1
  /\ event.coverageIncreased = Str(Sentinel)
  /\ finalCoverage = Zero
  /\ 2 \in DOMAIN sheet /\ sheet[2][2] = <<30, 0>>

\* ---- C18
\* C18: a calculatedCoverage event leaves finalCoverage, linesCovered,
\* totalLines and testAdded as they were; a summary event leaves
\* initialCoverage as it was.
C18_ReducerFrame ==
  /\ [][(Decoded /\ event'.dataType = "calculatedCoverage")
          => <<finalCoverage, linesCovered, totalLines, testAdded>>'
               = <<finalCoverage, linesCovered, totalLines, testAdded>>]_vars
  /\ [][(Decoded /\ event'.dataType = "summary")
          => initialCoverage' = initialCoverage]_vars

\* "10%", a sentinel summary, then "20%": initial 20, final still 10
C18_Witness ==
  /\ pc = "Awaiting"
  /\ nEvents = 3
  /\ event = CalculatedCoverage(Str(T20))
  /\ initialCoverage = <<20, 0>>
  /\ finalCoverage = <<10, 0>>

\* ---- C16
\* C16: items are taken one at a time, in enumeration order and once each, at
\* the loop head only; Done is reached only when every item has been taken;
\* once the files are enumerated the driver never stops anywhere but in Done,
\* and it reaches Done.
C16_SequentialAndTerminates ==
  /\ [][/\ idx' \in {idx, idx + 1}
        /\ idx' = idx + 1 => (pc = "Idle" /\ pc' = "Dispatching")
        /\ pc' = "Dispatching" => idx' = idx + 1]_vars
  /\ [](pc = "Done" => idx = Len(goFiles))
  /\ [](pc \in {"Done", "Aborted"} \/ ENABLED Next)
  /\ (pc = "Idle") ~> (pc = "Done")

\* ---- C17
\* the two readings of t were taken with the wall clock as far ahead of the
\* monotonic clock as for the two readings of u
SameSkew(t, u) == t.wall - t.mono = u.wall - u.mono

\* C17 as claimed: in every record the duration is not negative, the start
\* time is not after the end time, the duration agrees with the two times to
\* within a second, and the start time is not before the end time of the
\* record above.
C17_AsClaimed ==
  \A r \in Records(sheet) :
    /\ sheet[r][7] >= 0
    /\ sheet[r][8] <= sheet[r][9]
    /\ (sheet[r][9] - sheet[r][8] - 1) * TicksPerSec < sheet[r][7]
    /\ sheet[r][7] < (sheet[r][9] - sheet[r][8] + 1) * TicksPerSec
    /\ (r - 1) \in Records(sheet) => sheet[r - 1][9] <= sheet[r][8]

\* C17: the start time is read before the request; a record being saved has
\* the end time read when the stream ended, a start that is not after the end
\* on the monotonic clock, the duration between the two monotonic readings,
\* and the wall clock readings of start and end in whole seconds; the start
\* of an item is not before the end of the record above on the monotonic
\* clock.  The times of the record are ordered, agree with the duration to
\* within a second and follow the end time of the record above when the wall
\* clock was not stepped between the readings.  A failed item has no end time.
C17_TimeMeasurement ==
  /\ pc \in {"Dispatching", "Awaiting"}
       => /\ startTime # NoTime /\ startTime.mono <= now
          /\ endTime # NoTime
               => /\ (row - 1) \in Records(sheet)
                  /\ sheet[row - 1][9] = FormatRFC3339(endTime)
                  /\ endTime.mono <= startTime.mono
                  /\ SameSkew(endTime, startTime)
                       => FormatRFC3339(endTime) <= FormatRFC3339(startTime)
  /\ pc = "Saving"
       => /\ startTime # NoTime /\ endTime # NoTime /\ endTime.mono = now
          /\ startTime.mono <= endTime.mono
          /\ sheet[row][7] = endTime.mono - startTime.mono
          /\ sheet[row][8] = FormatRFC3339(startTime)
          /\ sheet[row][9] = FormatRFC3339(endTime)
          /\ SameSkew(startTime, endTime)
               => /\ sheet[row][8] <= sheet[row][9]
                  /\ (sheet[row][9] - sheet[row][8] - 1) * TicksPerSec < sheet[row][7]
                  /\ sheet[row][7] < (sheet[row][9] - sheet[row][8] + 1) * TicksPerSec
  /\ \A r \in Records(sheet) : sheet[r][7] >= 0
  /\ (pc = "Idle" /\ idx > 0 /\ saveErr = "none") => endTime = NoTime

\* the record of item 1 took one tick; the wall clock was set back a second
\* while item 2 was read, and its record starts after it ends although its
\* duration is one tick
C17_Witness ==
  /\ pc = "Saving" /\ idx = 2
  /\ Records(sheet) = {2, 3}
  /\ sheet[2][7] = 1 /\ sheet[3][7] = 1
  /\ startTime.mono = 1 /\ endTime.mono = 2
  /\ sheet[3][8] > sheet[3][9]
====
